---- MODULE Spec2Model ----
(***************************************************************************)
(* Model of the screenshot enrichment pipeline of instago-server:          *)
(* ScreenshotProcessingService.process_screenshot_async and the stages it  *)
(* sequences (GeminiOCRLLM, TencentAgent, StructureOutputLLM,              *)
(* EmbeddingService, VectorService), together with the persisted           *)
(* Screenshot rows and the vector index they write.                        *)
(*                                                                         *)
(* A Python dict is a TLA+ function whose DOMAIN is the dict's key set; an *)
(* Optional column is a sequence: <<>> is NULL and <<v>> is the value v.   *)
(* The ORM object of a run (obj) and the persisted row (rows) are kept     *)
(* apart: attribute assignments change obj, db.commit() copies obj to the  *)
(* row, and a failed commit rolls the session back, which discards the     *)
(* pending attribute changes of obj.  process_status is a column of the    *)
(* row, as screenshot.py (line 152) and schemas.py (line 60) use it.       *)
(***************************************************************************)
EXTENDS Integers, Sequences, FiniteSets, TLC

\* Number of enrichment runs (submitted screenshots) explored.
NumRuns == 1

Run == 1..NumRuns

Users == {"alice"}

\* current_user_id of the requests to the search and delete endpoints
Accounts == {"alice", "bob"}

None == <<>>
Some(v) == <<v>>

\* dict.get(key, default)
Get(d, k, default) == IF k \in DOMAIN d THEN d[k] ELSE default

Returned(v) == [raised |-> FALSE, value |-> v]
Raised == [raised |-> TRUE, value |-> None]

----------------------------------------------------------------------------
\* Content Extractor

\* GeminiOCRLLM._error_response
ocr_error_response ==
    [title |-> "Processing Error",
     description |-> "Failed to analyze screenshot with Gemini",
     tags |-> <<"error">>,
     markdown |-> "# Error"]

\* Results the provider can produce under OUTPUT_SCHEMA.
OcrJson ==
    { [general_description |-> "blog post", application |-> "Medium",
       parts |-> << [part_desc |-> "article", type |-> "text", location |-> "center",
                     contents |-> << [key |-> "Category", value |-> "rust"],
                                     [key |-> "heading", value |-> "Why Rust"] >>] >>,
       extracted_highlight_text |-> "Why Rust"],
      [general_description |-> "photo", application |-> "Preview",
       parts |-> << >>,
       extracted_highlight_text |-> ""] }

\* What generate_content / response.text can do for one call.  deep: the
\* parsed result cannot be serialised again by json.dumps(result, indent=2).
GeminiResponses ==
    { [kind |-> k, value |-> ocr_error_response, deep |-> FALSE] :
          k \in {"call_failed", "empty", "unparseable"} }
    \cup { [kind |-> "json", value |-> v, deep |-> d] : v \in OcrJson, d \in BOOLEAN }

\* GeminiOCRLLM.process_screenshot: every failure is answered with
\* _error_response(); nothing is raised.
process_screenshot(initialized, resp) ==
    IF ~initialized THEN Returned(ocr_error_response)
    ELSE IF resp.kind = "json" THEN Returned(resp.value)
    ELSE Returned(ocr_error_response)

\* ScreenshotProcessingService._run_ocr_analysis: the result is logged with
\* json.dumps(result, indent=2) outside any try block.
run_ocr_analysis(initialized, resp) ==
    LET result == process_screenshot(initialized, resp) IN
    IF result.raised THEN Raised
    ELSE IF initialized /\ resp.kind = "json" /\ resp.deep THEN Raised
    ELSE result

----------------------------------------------------------------------------
\* Source Resolver

TencentOutcomes == {"session_failed", "request_failed", "not_json", "empty_list", "results"}

\* TencentAgent.process_query
process_query(outcome) ==
    IF outcome \in {"session_failed", "request_failed"} THEN Raised
    ELSE Returned(outcome)

\* The fallback f-string of _find_sources_with_tencent
fallback_markdown(ocr) ==
    <<"#", Get(ocr, "application", "Screenshot"), Get(ocr, "text_content", "")>>

\* ScreenshotProcessingService._find_sources_with_tencent.  agent_available:
\* the import of app.agents.tencent_agent (which constructs the singleton)
\* succeeds; the import statement stands before the try block.
find_sources_with_tencent(ocr, agent_available, outcome) ==
    IF ~agent_available THEN Raised
    ELSE LET response == process_query(outcome) IN
         IF response.raised THEN Returned(fallback_markdown(ocr))
         ELSE IF response.value = "results" THEN Returned(<<"json", "first_result", "">>)
         ELSE Returned(fallback_markdown(ocr))

----------------------------------------------------------------------------
\* Canonical Distiller

DistillOutcomes == {"call_failed", "no_parsed", "direct", "search_str"}

\* StructureOutputLLM._error_response
distill_error_response ==
    [title |-> "Processing Error",
     quick_link |-> [type |-> "search_str", content |-> "screenshot content"]]

\* A Distiller that lets the failure of the provider call propagate.
extract_structured_data_raises(initialized, outcome) ==
    IF ~initialized THEN Returned(distill_error_response)
    ELSE IF outcome \in {"direct", "search_str"}
         THEN Returned([title |-> "Why Rust",
                        quick_link |-> [type |-> outcome, content |-> "why rust"]])
         ELSE IF outcome = "no_parsed" THEN Returned(distill_error_response)
         ELSE Raised

\* StructureOutputLLM.extract_structured_data
extract_structured_data(initialized, outcome) ==
    IF ~initialized THEN Returned(distill_error_response)
    ELSE IF outcome \in {"direct", "search_str"}
         THEN Returned([title |-> "Why Rust",
                        quick_link |-> [type |-> outcome, content |-> "why rust"]])
         ELSE Returned(distill_error_response)

----------------------------------------------------------------------------
\* Metadata

\* key.lower() contains 'tag', 'category' or 'type'
IsTagKey(key) == key \in {"Category", "Tag", "content_type"}

RECURSIVE content_tags(_)
content_tags(contents) ==
    IF contents = <<>> THEN <<>>
    ELSE LET c == Head(contents) IN
         (IF IsTagKey(Get(c, "key", "")) THEN <<Get(c, "value", "")>> ELSE <<>>)
         \o content_tags(Tail(contents))

RECURSIVE part_tags(_)
part_tags(parts) ==
    IF parts = <<>> THEN <<>>
    ELSE content_tags(Get(Head(parts), "contents", <<>>)) \o part_tags(Tail(parts))

\* Metadata whose has_error is set whatever the distiller returned.
prepare_metadata_has_error(ocr, sd) ==
    [title |-> Get(sd, "title", Get(ocr, "application", "Screenshot")),
     description |-> Get(ocr, "general_description", ""),
     tags |-> part_tags(Get(ocr, "parts", <<>>)),
     has_error |-> TRUE]

\* ScreenshotProcessingService._prepare_metadata
prepare_metadata(ocr, sd) ==
    LET tags == part_tags(Get(ocr, "parts", <<>>)) IN
    [title |-> Get(sd, "title", Get(ocr, "application", "Screenshot")),
     description |-> Get(ocr, "general_description", ""),
     tags |-> IF tags = <<>> /\ "application" \in DOMAIN ocr
              THEN <<ocr["application"]>> ELSE tags,
     has_error |-> Get(sd, "error", FALSE)]

\* json.dumps of a list of strings
json_dumps(list) == <<"[">> \o list \o <<"]">>

----------------------------------------------------------------------------
\* Embedding Provider and Vector Index

\* settings.OPENAI_EMBEDDING_DIM
OPENAI_EMBEDDING_DIM == 1536

\* [0.0] * n: a vector is kept as its length and whether it is all zero
Zeros(n) == [dim |-> n, values |-> "zero"]

\* [0.0] * self.dimension
ZeroVector == Zeros(OPENAI_EMBEDDING_DIM)

\* response.data[0].embedding of text-embedding-3-small
ProviderEmbedding == [dim |-> 1536, values |-> "provider"]

\* A text is a sequence of pieces; a piece is a string that is empty, all
\* whitespace, or holds a visible character.
Pieces == {"", " ", "\n\n", "rust"}

IsSpace(piece) == piece \in {"", " ", "\n\n"}

\* Longest text drawn as an input of generate_embedding.
MaxTextLen == 2

RECURSIVE SeqsUpTo(_, _)
SeqsUpTo(S, n) ==
    IF n = 0 THEN {<<>>}
    ELSE LET shorter == SeqsUpTo(S, n - 1) IN
         shorter \cup {Append(t, x) : t \in shorter, x \in S}

Texts == SeqsUpTo(Pieces, MaxTextLen)

\* `not text`
Falsy(text) == \A i \in 1..Len(text) : text[i] = ""

RECURSIVE lstrip(_)
lstrip(text) ==
    IF text = <<>> THEN <<>>
    ELSE IF IsSpace(Head(text)) THEN lstrip(Tail(text)) ELSE text

RECURSIVE rstrip(_)
rstrip(text) ==
    IF text = <<>> THEN <<>>
    ELSE IF IsSpace(text[Len(text)]) THEN rstrip(SubSeq(text, 1, Len(text) - 1)) ELSE text

\* str.strip()
strip(text) == rstrip(lstrip(text))

EmbeddingOutcomes == {"ok", "api_error", "no_data"}

\* An embedding call that lets the provider's error propagate.
generate_embedding_raises(text, outcome) ==
    IF Falsy(text) \/ Falsy(strip(text)) THEN Returned(ZeroVector)
    ELSE IF outcome = "ok" THEN Returned(ProviderEmbedding)
    ELSE IF outcome = "no_data" THEN Returned(ZeroVector)
    ELSE Raised

\* EmbeddingService.generate_embedding
generate_embedding(text, outcome) ==
    IF Falsy(text) \/ Falsy(strip(text)) THEN Returned(ZeroVector)
    ELSE IF outcome = "ok" THEN Returned(ProviderEmbedding)
    ELSE Returned(ZeroVector)

RECURSIVE join(_, _)
\* sep.join(list)
join(sep, list) ==
    IF list = <<>> THEN <<>>
    ELSE IF Len(list) = 1 THEN list
    ELSE <<Head(list), sep>> \o join(sep, Tail(list))

\* EmbeddingService.generate_embedding_from_screenshot_data; the narrative
\* is already a sequence of pieces.
generate_embedding_from_screenshot_data(title, description, tags, markdown, outcome) ==
    generate_embedding(<<title, "\n\n", description, "\n\n">> \o join(" ", tags)
                           \o <<"\n\n">> \o markdown,
                       outcome)

NotStored == <<"not-stored", 0>>
\* str(uuid.uuid4()) of the add_entity call made by run r
NewVectorId(r) == <<"uuid", r>>

IndexOutcomes == {"stored", "insert_failed", "flush_failed"}

\* An add_entity that goes to the collection without looking at
\* self.connected.
add_entity_unguarded(index, is_connected, vid, entity_id, entity_type, emb, user_id, outcome) ==
    LET entry == [id |-> vid, entity_id |-> entity_id, entity_type |-> entity_type,
                  user_id |-> user_id, embedding |-> emb] IN
    IF outcome = "stored" /\ is_connected
        THEN [index |-> index \cup {entry}, out |-> Returned(vid)]
    ELSE IF outcome = "flush_failed" /\ is_connected
        THEN [index |-> index \cup {entry}, out |-> Raised]
    ELSE [index |-> index, out |-> Raised]

\* VectorService.add_entity: the entries after the call and what it returns.
add_entity(index, is_connected, vid, entity_id, entity_type, emb, user_id, outcome) ==
    LET entry == [id |-> vid, entity_id |-> entity_id, entity_type |-> entity_type,
                  user_id |-> user_id, embedding |-> emb] IN
    IF ~is_connected THEN [index |-> index, out |-> Returned(NotStored)]
    ELSE IF outcome = "stored" THEN [index |-> index \cup {entry}, out |-> Returned(vid)]
    ELSE IF outcome = "flush_failed" THEN [index |-> index \cup {entry}, out |-> Raised]
    ELSE [index |-> index, out |-> Raised]

\* VectorService.add_screenshot
add_screenshot(index, is_connected, vid, screenshot_id, emb, user_id, outcome) ==
    add_entity(index, is_connected, vid, screenshot_id, "screenshot", emb, user_id, outcome)

\* VectorService.add_query
add_query(index, is_connected, vid, query_id, emb, user_id, outcome) ==
    add_entity(index, is_connected, vid, query_id, "query", emb, user_id, outcome)

----------------------------------------------------------------------------
\* Screenshot rows and the ORM session

\* Largest `limit` of a vector search or a retrieval request.
MaxLimit == 2

\* list[:n]
Take(list, n) == SubSeq(list, 1, IF n < Len(list) THEN n ELSE Len(list))

RECURSIVE Perms(_)
\* the orders in which the backend can return a set of hits
Perms(S) ==
    IF S = {} THEN {<<>>}
    ELSE UNION {{<<x>> \o p : p \in Perms(S \ {x})} : x \in S}

\* A filter expression that admits the entries of every owner.
search_expr_any_owner(user_ids) ==
    IF Len(user_ids) >= 1
        THEN Returned([op |-> "in", users |-> Accounts])
    ELSE Raised

\* The filter expression of search_screenshots (lines 131-132); user_ids[0]
\* of an empty list raises IndexError.
search_expr(user_ids) ==
    IF Len(user_ids) > 1
        THEN Returned([op |-> "in", users |-> {user_ids[i] : i \in 1..Len(user_ids)}])
    ELSE IF Len(user_ids) = 1
        THEN Returned([op |-> "==", users |-> {user_ids[1]}])
    ELSE Raised

\* A filter that leaves out the entity type.
MatchesAnyType(expr, entry) == entry.user_id \in expr.users

\* The backend's evaluation of the expression on one entry.
Matches(expr, entry) ==
    /\ entry.user_id \in expr.users
    /\ entry.entity_type = "screenshot"

\* hit.score under the IP metric
InnerProduct(a, b) == IF a.values = "zero" \/ b.values = "zero" THEN 0 ELSE 1

SearchOutcomes == {"hits", "search_failed"}

\* VectorService.search_screenshots.  ranked: the entries of the index in
\* the order of the backend's similarity ranking.
search_screenshots(ranked, is_connected, query_embedding, user_ids, limit, outcome) ==
    IF ~is_connected THEN Returned(<<>>)
    ELSE LET expr == search_expr(user_ids) IN
         IF expr.raised \/ outcome = "search_failed" THEN Returned(<<>>)
         ELSE LET Hit(e) == Matches(expr.value, e)
                  hits == Take(SelectSeq(ranked, Hit), limit) IN
              Returned([i \in 1..Len(hits) |->
                           [screenshot_id |-> hits[i].entity_id,
                            user_id |-> hits[i].user_id,
                            score |-> InnerProduct(query_embedding, hits[i].embedding)]])

DeleteOutcomes == {"deleted", "delete_failed", "flush_failed"}

\* VectorService.delete_screenshot: the entries after the call and what it
\* returns.
delete_screenshot(index, is_connected, vid, outcome) ==
    IF ~is_connected THEN [index |-> index, out |-> Returned(None)]
    ELSE IF outcome = "delete_failed" THEN [index |-> index, out |-> Returned(None)]
    ELSE [index |-> {e \in index : e.id # vid}, out |-> Returned(None)]

\* Screenshot(...) as built by _create_screenshot_record
NewScreenshot(u) ==
    [user_id |-> u, process_status |-> "pending",
     ai_title |-> None, ai_description |-> None, ai_tags |-> None,
     markdown_content |-> None, vector_id |-> None, quick_link |-> None,
     user_note |-> Some("app: tags")]

NoRow == [user_id |-> "", process_status |-> "absent",
          ai_title |-> None, ai_description |-> None, ai_tags |-> None,
          markdown_content |-> None, vector_id |-> None, quick_link |-> None,
          user_note |-> None]

\* The UPDATE a session flushes for an object it loaded as `loaded` and
\* whose attributes are now `o`: the columns whose attribute changed are
\* written, the others keep what the row holds.
flush_update(row, loaded, o) ==
    [column \in DOMAIN row |->
        IF o[column] # loaded[column] THEN o[column] ELSE row[column]]

\* A commit that raises although the row has been written.
CommitFailsAfterWrite(row, o, ok) ==
    [row |-> o, obj |-> IF ok THEN o ELSE row, wrote |-> IF o = row THEN 0 ELSE 1]

\* db.commit(): on success the pending attribute values are persisted; on
\* failure the transaction is rolled back and the object is expired.
Commit(row, o, ok) ==
    IF ok THEN [row |-> o, obj |-> o, wrote |-> IF o = row THEN 0 ELSE 1]
    ELSE [row |-> row, obj |-> row, wrote |-> 0]

\* Whether a db.commit() of changes to the row can succeed: the UPDATE of a
\* row that has been deleted matches no row and the flush raises.
CommitOutcomes(row) == IF row.process_status = "deleted" THEN {FALSE} ELSE BOOLEAN

\* screenshot.process_status = "error"; db.commit()  (lines 105-106, 116-117)
mark_screenshot_error(row, o, ok) ==
    Commit(row, flush_update(row, o, [o EXCEPT !.process_status = "error"]), ok)

\* The terminal write without the vector reference.
updated_screenshot_without_vector(o, metadata, markdown, vid, sd) ==
    [o EXCEPT !.ai_title = Some(metadata.title),
              !.ai_description = Some(metadata.description),
              !.ai_tags = Some(json_dumps(metadata.tags)),
              !.markdown_content = Some(markdown),
              !.quick_link = Some(Get(sd, "quick_link", [type |-> "", content |-> ""])),
              !.process_status = IF metadata.has_error THEN "error" ELSE "processed"]

\* The attribute assignments of _update_screenshot_record (lines 281-293)
updated_screenshot(o, metadata, markdown, vid, sd) ==
    [o EXCEPT !.ai_title = Some(metadata.title),
              !.ai_description = Some(metadata.description),
              !.ai_tags = Some(json_dumps(metadata.tags)),
              !.markdown_content = Some(markdown),
              !.vector_id = Some(vid),
              !.quick_link = Some(Get(sd, "quick_link", [type |-> "", content |-> ""])),
              !.process_status = IF metadata.has_error THEN "error" ELSE "processed"]

\* ScreenshotUpdate as the PUT endpoint can be given it: a note, tags, or
\* both.
UpdateData ==
    {[user_note |-> note, ai_tags |-> tags] :
        note \in {None, Some("my note")}, tags \in {None, Some(<<"mine">>)}}
    \ {[user_note |-> None, ai_tags |-> None]}

\* The attribute assignments of update_screenshot (lines 159-163)
edited_screenshot(o, update_data) ==
    [o EXCEPT !.user_note = IF update_data.user_note # None
                            THEN update_data.user_note ELSE @,
              !.ai_tags = IF update_data.ai_tags # None
                          THEN Some(json_dumps(update_data.ai_tags[1])) ELSE @]

----------------------------------------------------------------------------
\* Retrieval: the reranker and the tables of the search endpoint

\* Number of Screenshot ids the retrieval endpoint's table ranges over.
NumScreenshots == 2

ScreenshotIds == 1..NumScreenshots

\* A row removed by db.delete(screenshot); db.commit()
DeletedRow == [NoRow EXCEPT !.process_status = "deleted"]

\* The delete endpoint after it has found the caller's row: the entries of
\* the index after the call, and whether the row is gone.
delete_screenshot_row(row, index, is_connected, outcome, commit_ok) ==
    [index |-> IF row.vector_id # None
               THEN delete_screenshot(index, is_connected, row.vector_id[1], outcome).index
               ELSE index,
     deleted |-> commit_ok]

IsLive(row) == row.process_status \notin {"absent", "deleted"}

\* The id of a Query record, as add_query can be given it.
QueryIds == {NumScreenshots + 1}

\* The owner lists search_screenshots is called with: none, one or two owners.
OwnerLists == SeqsUpTo(Accounts, 2)

\* QueryRequest.limit: the smallest value and the largest one explored
Limits == {1, MaxLimit}

\* QueryRequest.query: min_length=1
QueryTexts == {t \in Texts : ~Falsy(t)}

\* What embedding_service.generate_embedding(query.query) can give
QueryEmbeddings ==
    {generate_embedding(text, outcome) : text \in QueryTexts, outcome \in EmbeddingOutcomes}

\* One line of the reranking model's answer: "idx: score" when it parses.
\* Scores are in tenths: 10 is 1.0 and 5 is 0.5.
RerankLines ==
    {[parses |-> FALSE, idx |-> 0, score |-> 0],
     [parses |-> TRUE, idx |-> 0, score |-> 2],
     [parses |-> TRUE, idx |-> 1, score |-> 12],
     [parses |-> TRUE, idx |-> -1, score |-> 9],
     [parses |-> TRUE, idx |-> -(NumScreenshots + 1), score |-> 9]}

\* Most lines in an answer of the reranking model.
MaxRankings == 2

RerankContents == SeqsUpTo(RerankLines, MaxRankings)

Parses(line) == line.parses

\* rankings.sort(key=lambda x: x[1], reverse=True): x goes behind every
\* element whose score is not smaller.
insert_by_score(sorted, x) ==
    LET k == Cardinality({i \in 1..Len(sorted) : sorted[i].score >= x.score}) IN
    SubSeq(sorted, 1, k) \o <<x>> \o SubSeq(sorted, k + 1, Len(sorted))

RECURSIVE sort_by_score(_)
sort_by_score(list) ==
    IF list = <<>> THEN <<>>
    ELSE insert_by_score(sort_by_score(SubSeq(list, 1, Len(list) - 1)), list[Len(list)])

\* RerankingService._parse_rankings
parse_rankings(content) == sort_by_score(SelectSeq(content, Parses))

\* list[idx] for -len(list) <= idx < len(list)
PyIndex(list, idx) == IF idx >= 0 THEN list[idx + 1] ELSE list[Len(list) + idx + 1]

\* The fallback without the slice: [(s, 1.0) for s in screenshots]
original_order_unsliced(list, top_k) ==
    [i \in 1..Len(list) |-> [screenshot |-> list[i], score |-> 10]]

\* [(s, 1.0) for s in screenshots[:top_k]]
original_order(list, top_k) ==
    LET head == Take(list, top_k) IN
    [i \in 1..Len(head) |-> [screenshot |-> head[i], score |-> 10]]

\* The loop of lines 103-105 left out.
add_missing_none(reranked, i, list, included_indices, top_k) == reranked

RECURSIVE add_missing(_, _, _, _, _)
\* The loop of lines 103-105, from index i on.
add_missing(reranked, i, list, included_indices, top_k) ==
    IF i >= Len(list) THEN reranked
    ELSE add_missing(IF i \notin included_indices /\ Len(reranked) < top_k
                     THEN Append(reranked, [screenshot |-> list[i + 1], score |-> 5])
                     ELSE reranked,
                     i + 1, list, included_indices, top_k)

RerankOutcomes == {"content", "call_failed"}

\* The try block of rerank_screenshots (lines 72-108): what it returns, or
\* that it raised into the handler of line 110.
rerank_try(list, top_k, outcome, content) ==
    IF outcome = "call_failed" THEN Raised
    ELSE IF content = <<>> THEN Returned(original_order(list, top_k))
    ELSE LET rankings == Take(parse_rankings(content), top_k)
             InRange(rk) == rk.idx < Len(list)
             picked == SelectSeq(rankings, InRange)
         IN
         IF \E i \in 1..Len(picked) : picked[i].idx < -Len(list)
         THEN \* screenshots[idx] raises IndexError
              Raised
         ELSE LET reranked == [i \in 1..Len(picked) |->
                                  [screenshot |-> PyIndex(list, picked[i].idx),
                                   score |-> picked[i].score]]
                  included_indices == {rankings[i].idx : i \in 1..Len(rankings)}
              IN Returned(Take(add_missing(reranked, 0, list, included_indices, top_k),
                               top_k))

\* The handler of lines 110-113 around the try block: fallback to the
\* original order.
rerank_except(body, list, top_k) ==
    IF body.raised THEN Returned(original_order(list, top_k)) ELSE body

\* rerank_screenshots without the handler of line 110.
rerank_screenshots_unguarded(initialized, list, top_k, outcome, content) ==
    IF ~initialized THEN Returned(original_order(list, top_k))
    ELSE rerank_try(list, top_k, outcome, content)

\* RerankingService.rerank_screenshots
rerank_screenshots(initialized, list, top_k, outcome, content) ==
    IF ~initialized THEN Returned(original_order(list, top_k))
    ELSE rerank_except(rerank_try(list, top_k, outcome, content), list, top_k)

\* Most candidates handed to one call of the reranker.
MaxCandidates == 3

\* The lines an answer of the reranking model is made of when the reranker
\* is examined on its own: unparseable, or an index (before, inside and
\* behind the candidate list, from either end) with a score below the
\* default 0.5, above it, or above 1.0.
RankingLines ==
    {[parses |-> FALSE, idx |-> 0, score |-> 0]}
    \cup {[parses |-> TRUE, idx |-> idx, score |-> score] :
             idx \in {-(MaxCandidates + 1), -1} \cup (0..MaxCandidates),
             score \in {2, 9, 12}}

RankingContents == SeqsUpTo(RankingLines, MaxRankings)

\* The arguments of one call: screenshots is a list of distinct candidates.
RerankInputs ==
    {[screenshots |-> [i \in 1..n |-> i], top_k |-> k] :
        n \in 0..MaxCandidates, k \in 1..MaxLimit}

\* The state of the service and the answer of the provider for one call.
RerankCalls ==
    {[initialized |-> TRUE, outcome |-> "content", content |-> c] : c \in RankingContents}
    \cup {[initialized |-> i, outcome |-> "call_failed", content |-> <<>>] : i \in BOOLEAN}

\* The locals of a retrieval request that has not started.
IdleRequest ==
    [pc |-> "idle", user |-> "", limit |-> 0, query_embedding |-> None,
     search_results |-> <<>>, screenshot_map |-> <<>>, dtos |-> <<>>, created |-> 0]

\* ScreenshotResponse.from_db, with the columns the results are compared on
from_db(id, row) == [id |-> id, user_id |-> row.user_id]

----------------------------------------------------------------------------
\* The executor of the upload endpoint

\* ThreadPoolExecutor(max_workers=5)
max_workers == 5

\* Number of uploads whose task is submitted; the n-th task submitted is n.
NumTasks == 6

Tasks == 1..NumTasks

\* A submit that starts a thread whenever no thread is idle.
adjust_thread_count_unbounded(threads, busy) ==
    IF busy < threads THEN threads ELSE threads + 1

\* ThreadPoolExecutor._adjust_thread_count as submit calls it: an idle
\* thread takes the work item, otherwise a thread is started while fewer
\* than max_workers exist.
adjust_thread_count(threads, busy) ==
    IF busy < threads THEN threads
    ELSE IF threads < max_workers THEN threads + 1
    ELSE threads

----------------------------------------------------------------------------
\* Friend requests

\* Number of calls of send_friend_request.
NumCalls == 2

Calls == 1..NumCalls

\* The server processes that serve the calls against the one database.  The
\* body of send_friend_request has no await, so the calls of one process
\* run one after the other; those of different processes interleave.
Processes == {"p1", "p2"}

\* A call that has not arrived.
NoCall == [pc |-> "none", process |-> "", current_user_id |-> "", addressee |-> None,
           response |-> 0]

\* Whom request.email names in list_users(): one of the accounts or nobody.
Addressees == {None} \cup {Some(u) : u \in Accounts}

\* The query of lines 44-51: the rows between the two users, in either
\* direction.
existing_friendship(rows, current_user_id, addressee_id) ==
    {f \in rows :
        \/ f.requester_id = current_user_id /\ f.addressee_id = addressee_id
        \/ f.requester_id = addressee_id /\ f.addressee_id = current_user_id}

\* UniqueConstraint('requester_id', 'addressee_id'): whether the table
\* accepts the row.
unique_friendship(rows, row) ==
    \A f \in rows :
        ~(f.requester_id = row.requester_id /\ f.addressee_id = row.addressee_id)

----------------------------------------------------------------------------
VARIABLES
    pc,                 \* position of each run in process_screenshot_async
    db,                 \* the run's session: "none", "open" or "closed"
    escaped,            \* an exception left process_screenshot_async
    obj,                \* the run's ORM object `screenshot`
    rows,               \* the persisted Screenshot row of each run
    ocr_result, markdown_output, structured_data, embedding, vector_id,
    vectors,            \* entries of the vector index
    trace,              \* stages invoked by each run, with how they ended
    writes,             \* commits that changed the row after its creation
    connected,          \* VectorService.connected
    ocr_initialized,    \* GeminiOCRLLM.initialized
    distiller_initialized, \* StructureOutputLLM.initialized
    tencent_available,  \* the tencent_agent singleton can be constructed
    screenshots,        \* the Screenshot table the retrieval endpoint reads
    collection,         \* the entries of the index the retrieval endpoint searches
    req,                \* the retrieval request in progress and its locals
    response,           \* what the last finished retrieval request gave its caller
    rerank_input,       \* the arguments of the call of rerank_screenshots examined
    rerank_output,      \* the provider's answer to that call and what the call gave
    tasks,              \* each task given to the executor: "new", "queued", "running", "finished"
    work_queue,         \* the executor's queue of work items not yet taken by a thread
    num_threads,        \* the worker threads the executor has created
    running_at_submit,  \* the tasks that ran when a task was submitted to a full pool
    user_update,        \* the ScreenshotUpdate the owner of each record has had committed
    friendships,        \* the rows of the friendships table
    friend_requests     \* each call of send_friend_request: position, locals, response

env == <<connected, ocr_initialized, distiller_initialized, tencent_available>>
locals == <<ocr_result, markdown_output, structured_data, embedding, vector_id>>
retrieval == <<screenshots, collection, req, response>>
reranker == <<rerank_input, rerank_output>>
pool == <<tasks, work_queue, num_threads, running_at_submit>>
friends == <<friendships, friend_requests>>
rest == <<reranker, pool, user_update, friends>>
vars == <<pc, db, escaped, obj, rows, locals, vectors, trace, writes, env, retrieval, rest>>

\* No retrieval request is served and the endpoint's tables are empty.
RetrievalIdle ==
    /\ screenshots = [id \in ScreenshotIds |-> NoRow]
    /\ collection = {}
    /\ req = IdleRequest
    /\ response = None

\* No call of the reranker is examined.
RerankerIdle ==
    /\ rerank_input = None
    /\ rerank_output = None

\* Nothing has been submitted to the executor.
PoolIdle ==
    /\ tasks = [t \in Tasks |-> "new"]
    /\ work_queue = <<>>
    /\ num_threads = 0
    /\ running_at_submit = [t \in Tasks |-> {}]

\* No record has been edited by its owner.
NoUserUpdate == user_update = [r \in Run |-> None]

\* No friend request has been sent.
FriendsIdle ==
    /\ friendships = {}
    /\ friend_requests = [c \in Calls |-> NoCall]

RestIdle == RerankerIdle /\ PoolIdle /\ NoUserUpdate /\ FriendsIdle

Init ==
    /\ pc = [r \in Run |-> "submitted"]
    /\ db = [r \in Run |-> "none"]
    /\ escaped = [r \in Run |-> FALSE]
    /\ obj = [r \in Run |-> NoRow]
    /\ rows = [r \in Run |-> NoRow]
    /\ ocr_result = [r \in Run |-> None]
    /\ markdown_output = [r \in Run |-> None]
    /\ structured_data = [r \in Run |-> None]
    /\ embedding = [r \in Run |-> None]
    /\ vector_id = [r \in Run |-> None]
    /\ vectors = {}
    /\ trace = [r \in Run |-> <<>>]
    /\ writes = [r \in Run |-> 0]
    /\ connected \in BOOLEAN
    /\ ocr_initialized \in BOOLEAN
    /\ distiller_initialized \in BOOLEAN
    /\ tencent_available \in BOOLEAN
    /\ RetrievalIdle
    /\ RestIdle

\* The stages of one run in the order process_screenshot_async calls them.
StageOrder ==
    <<"extraction", "resolution", "distillation", "embedding", "indexing", "terminal_write">>

Invoked(r, stage, out) ==
    trace' = [trace EXCEPT ![r] = Append(@, [stage |-> stage,
                  result |-> IF out.raised THEN "raised" ELSE "returned"])]

\* The run returns: locals go out of scope and `finally` closes the session.
Finish(r) ==
    /\ pc' = [pc EXCEPT ![r] = "done"]
    /\ db' = [db EXCEPT ![r] = IF @ = "none" THEN "none" ELSE "closed"]
    /\ ocr_result' = [ocr_result EXCEPT ![r] = None]
    /\ markdown_output' = [markdown_output EXCEPT ![r] = None]
    /\ structured_data' = [structured_data EXCEPT ![r] = None]
    /\ embedding' = [embedding EXCEPT ![r] = None]
    /\ vector_id' = [vector_id EXCEPT ![r] = None]

\* A stage call ends: on an exception control goes to the handler `to`.
StageEnds(r, out, to, next) ==
    pc' = [pc EXCEPT ![r] = IF out.raised THEN to ELSE next]

\* Lines 40-47: SessionLocal() and _create_screenshot_record.
CreateRecord(r) ==
    /\ pc[r] = "submitted"
    /\ \E u \in Users, outcome \in {"session_failed", "create_failed", "created"} :
        CASE outcome = "session_failed" ->
                /\ pc' = [pc EXCEPT ![r] = "handler"]
                /\ UNCHANGED <<db, obj, rows>>
          [] outcome = "create_failed" ->
                /\ pc' = [pc EXCEPT ![r] = "handler"]
                /\ db' = [db EXCEPT ![r] = "open"]
                /\ UNCHANGED <<obj, rows>>
          [] outcome = "created" ->
                /\ pc' = [pc EXCEPT ![r] = "ocr"]
                /\ db' = [db EXCEPT ![r] = "open"]
                /\ rows' = [rows EXCEPT ![r] = NewScreenshot(u)]
                /\ obj' = [obj EXCEPT ![r] = NewScreenshot(u)]
    /\ UNCHANGED <<escaped, locals, vectors, trace, writes, env, retrieval, rest>>

\* Step 3 whose handler marks the error but does not return.
RunOcrNoReturn(r) ==
    /\ pc[r] = "ocr"
    /\ \E resp \in GeminiResponses, commit_ok \in CommitOutcomes(rows[r]) :
        LET out == run_ocr_analysis(ocr_initialized, resp)
            c == mark_screenshot_error(rows[r], obj[r], commit_ok) IN
        /\ Invoked(r, "extraction", out)
        /\ pc' = [pc EXCEPT ![r] = "resolve"]
        /\ ocr_result' = [ocr_result EXCEPT ![r] =
                              IF out.raised THEN Some(ocr_error_response) ELSE Some(out.value)]
        /\ rows' = [rows EXCEPT ![r] = IF out.raised THEN c.row ELSE @]
        /\ obj' = [obj EXCEPT ![r] = IF out.raised THEN c.obj ELSE @]
    /\ UNCHANGED <<db, escaped, writes, markdown_output, structured_data,
                   embedding, vector_id, vectors, env, retrieval, rest>>

\* Lines 49-55: step 3.
RunOcr(r) ==
    /\ pc[r] = "ocr"
    /\ \E resp \in GeminiResponses :
        LET out == run_ocr_analysis(ocr_initialized, resp) IN
        /\ Invoked(r, "extraction", out)
        /\ StageEnds(r, out, "mark_error", "resolve")
        /\ ocr_result' = [ocr_result EXCEPT ![r] = IF out.raised THEN None ELSE Some(out.value)]
    /\ UNCHANGED <<db, escaped, obj, rows, writes, markdown_output, structured_data,
                   embedding, vector_id, vectors, env, retrieval, rest>>

\* Step 4 that goes on to the Distiller after the Resolver has raised.
FindSourcesNoReturn(r) ==
    /\ pc[r] = "resolve"
    /\ \E outcome \in TencentOutcomes :
        LET out == find_sources_with_tencent(ocr_result[r][1], tencent_available, outcome) IN
        /\ Invoked(r, "resolution", out)
        /\ pc' = [pc EXCEPT ![r] = "distill"]
        /\ markdown_output' = [markdown_output EXCEPT ![r] =
                                   IF out.raised THEN Some(fallback_markdown(ocr_result[r][1]))
                                   ELSE Some(out.value)]
    /\ UNCHANGED <<db, escaped, obj, rows, writes, ocr_result, structured_data,
                   embedding, vector_id, vectors, env, retrieval, rest>>

\* Lines 57-65: step 4.
FindSources(r) ==
    /\ pc[r] = "resolve"
    /\ \E outcome \in TencentOutcomes :
        LET out == find_sources_with_tencent(ocr_result[r][1], tencent_available, outcome) IN
        /\ Invoked(r, "resolution", out)
        /\ StageEnds(r, out, "mark_error", "distill")
        /\ markdown_output' = [markdown_output EXCEPT ![r] =
                                   IF out.raised THEN None ELSE Some(out.value)]
    /\ UNCHANGED <<db, escaped, obj, rows, writes, ocr_result, structured_data,
                   embedding, vector_id, vectors, env, retrieval, rest>>

\* Lines 67-73: step 5.
Distill(r) ==
    /\ pc[r] = "distill"
    /\ \E outcome \in DistillOutcomes :
        LET out == extract_structured_data(distiller_initialized, outcome) IN
        /\ Invoked(r, "distillation", out)
        /\ StageEnds(r, out, "mark_error", "embed")
        /\ structured_data' = [structured_data EXCEPT ![r] =
                                   IF out.raised THEN None ELSE Some(out.value)]
    /\ UNCHANGED <<db, escaped, obj, rows, writes, ocr_result, markdown_output,
                   embedding, vector_id, vectors, env, retrieval, rest>>

\* Lines 75-76 and 259-264: step 6 and the embedding half of step 7.
Embed(r) ==
    /\ pc[r] = "embed"
    /\ \E outcome \in EmbeddingOutcomes :
        LET metadata == prepare_metadata(ocr_result[r][1], structured_data[r][1])
            out == generate_embedding_from_screenshot_data(
                       metadata.title, metadata.description, metadata.tags,
                       markdown_output[r][1], outcome) IN
        /\ Invoked(r, "embedding", out)
        /\ StageEnds(r, out, "handler", "index")
        /\ embedding' = [embedding EXCEPT ![r] = Some(out.value)]
    /\ UNCHANGED <<db, escaped, obj, rows, writes, ocr_result, markdown_output,
                   structured_data, vector_id, vectors, env, retrieval, rest>>

\* Indexing that persists the vector reference as soon as it has it.
IndexPersistsVectorId(r) ==
    /\ pc[r] = "index"
    /\ \E outcome \in IndexOutcomes :
        LET res == add_screenshot(vectors, connected, NewVectorId(r), r,
                                  embedding[r][1], obj[r].user_id, outcome) IN
        /\ Invoked(r, "indexing", res.out)
        /\ StageEnds(r, res.out, "handler", "update")
        /\ vectors' = res.index
        /\ vector_id' = [vector_id EXCEPT ![r] =
                             IF res.out.raised THEN None ELSE Some(res.out.value)]
        /\ rows' = [rows EXCEPT ![r].vector_id =
                             IF res.out.raised THEN @ ELSE Some(res.out.value)]
        /\ obj' = [obj EXCEPT ![r].vector_id =
                             IF res.out.raised THEN @ ELSE Some(res.out.value)]
        /\ writes' = [writes EXCEPT ![r] = IF res.out.raised THEN @ ELSE @ + 1]
    /\ UNCHANGED <<db, escaped, ocr_result, markdown_output,
                   structured_data, embedding, env, retrieval, rest>>

\* Lines 266-267: the indexing half of step 7.
Index(r) ==
    /\ pc[r] = "index"
    /\ \E outcome \in IndexOutcomes :
        LET res == add_screenshot(vectors, connected, NewVectorId(r), r,
                                  embedding[r][1], obj[r].user_id, outcome) IN
        /\ Invoked(r, "indexing", res.out)
        /\ StageEnds(r, res.out, "handler", "update")
        /\ vectors' = res.index
        /\ vector_id' = [vector_id EXCEPT ![r] =
                             IF res.out.raised THEN None ELSE Some(res.out.value)]
    /\ UNCHANGED <<db, escaped, obj, rows, writes, ocr_result, markdown_output,
                   structured_data, embedding, env, retrieval, rest>>

\* Lines 88-98: step 8, _update_screenshot_record.
UpdateRecord(r) ==
    /\ pc[r] = "update"
    /\ \E commit_ok \in CommitOutcomes(rows[r]) :
        LET metadata == prepare_metadata(ocr_result[r][1], structured_data[r][1])
            o == updated_screenshot(obj[r], metadata, markdown_output[r][1],
                                    vector_id[r][1], structured_data[r][1])
            c == Commit(rows[r], flush_update(rows[r], obj[r], o), commit_ok)
        IN
        /\ Invoked(r, "terminal_write", IF commit_ok THEN Returned(None) ELSE Raised)
        /\ rows' = [rows EXCEPT ![r] = c.row]
        /\ obj' = [obj EXCEPT ![r] = c.obj]
        /\ writes' = [writes EXCEPT ![r] = @ + c.wrote]
        /\ IF commit_ok
           THEN Finish(r)
           ELSE /\ pc' = [pc EXCEPT ![r] = "handler"]
                /\ UNCHANGED <<db, locals>>
    /\ UNCHANGED <<escaped, vectors, env, retrieval, rest>>

\* Lines 113-120 followed by the `return` of lines 55, 65, 73.
MarkScreenshotError(r) ==
    /\ pc[r] = "mark_error"
    /\ \E commit_ok \in CommitOutcomes(rows[r]) :
        LET c == mark_screenshot_error(rows[r], obj[r], commit_ok) IN
        /\ Invoked(r, "error_write", IF commit_ok THEN Returned(None) ELSE Raised)
        /\ rows' = [rows EXCEPT ![r] = c.row]
        /\ obj' = [obj EXCEPT ![r] = c.obj]
        /\ writes' = [writes EXCEPT ![r] = @ + c.wrote]
        /\ Finish(r)
    /\ UNCHANGED <<escaped, vectors, env, retrieval, rest>>

\* Lines 100-111: the outer handler and `finally`.
HandleException(r) ==
    /\ pc[r] = "handler"
    /\ IF db[r] = "none"
       THEN \* `if db and screenshot` is false at `db`
            /\ Finish(r)
            /\ UNCHANGED <<escaped, obj, rows, writes, trace>>
       ELSE IF obj[r] = NoRow
       THEN \* the local `screenshot` was never bound: reading it raises
            /\ Finish(r)
            /\ escaped' = [escaped EXCEPT ![r] = TRUE]
            /\ UNCHANGED <<obj, rows, writes, trace>>
       ELSE \E commit_ok \in CommitOutcomes(rows[r]) :
            LET c == mark_screenshot_error(rows[r], obj[r], commit_ok) IN
            /\ Invoked(r, "error_write", IF commit_ok THEN Returned(None) ELSE Raised)
            /\ rows' = [rows EXCEPT ![r] = c.row]
            /\ obj' = [obj EXCEPT ![r] = c.obj]
            /\ writes' = [writes EXCEPT ![r] = @ + c.wrote]
            /\ Finish(r)
            /\ UNCHANGED escaped
    /\ UNCHANGED <<vectors, env, retrieval, rest>>

Next ==
    \E r \in Run :
        \/ CreateRecord(r)
        \/ RunOcr(r)
        \/ FindSources(r)
        \/ Distill(r)
        \/ Embed(r)
        \/ Index(r)
        \/ UpdateRecord(r)
        \/ MarkScreenshotError(r)
        \/ HandleException(r)

Spec == Init /\ [][Next]_vars

----------------------------------------------------------------------------
\* The retrieval endpoint (api/search.py) over a table and an index that
\* uploads, enrichment runs and deletions change.  Of an enrichment run only
\* what the endpoint can observe is kept: the index entry and the vector
\* reference of the row.  The response of a finished request is held until
\* the tables next change or the next request starts.

enrichment == <<pc, db, escaped, obj, rows, locals, vectors, trace, writes>>

\* No enrichment run of the pipeline specification has started.
EnrichmentIdle ==
    /\ pc = [r \in Run |-> "submitted"]
    /\ db = [r \in Run |-> "none"]
    /\ escaped = [r \in Run |-> FALSE]
    /\ obj = [r \in Run |-> NoRow]
    /\ rows = [r \in Run |-> NoRow]
    /\ ocr_result = [r \in Run |-> None]
    /\ markdown_output = [r \in Run |-> None]
    /\ structured_data = [r \in Run |-> None]
    /\ embedding = [r \in Run |-> None]
    /\ vector_id = [r \in Run |-> None]
    /\ vectors = {}
    /\ trace = [r \in Run |-> <<>>]
    /\ writes = [r \in Run |-> 0]

InitSearch ==
    /\ EnrichmentIdle
    /\ connected \in BOOLEAN
    /\ ocr_initialized = TRUE
    /\ distiller_initialized = TRUE
    /\ tencent_available = TRUE
    /\ screenshots = [id \in ScreenshotIds |-> NoRow]
    /\ collection = {}
    /\ req = IdleRequest
    /\ response = None
    /\ RestIdle

\* The positions of the request in progress at which a change of the tables
\* can be told from one made before the request or after it: the request
\* reads the index in its vector search and the table in its fetch, so a
\* change commutes with every step but those between the two.
TablesObserved == req.pc \in {"idle", "fetch"}

\* _create_screenshot_record for a new id.
UploadScreenshot(id) ==
    /\ TablesObserved
    /\ screenshots[id] = NoRow
    /\ \E u \in Accounts :
          screenshots' = [screenshots EXCEPT ![id] = NewScreenshot(u)]
    /\ response' = None
    /\ UNCHANGED <<collection, req, enrichment, env, rest>>

\* Steps 7 and 8 of the run of a pending record: add_screenshot, then the
\* terminal write of the vector reference when both succeed.
IndexScreenshot(id) ==
    /\ TablesObserved
    /\ screenshots[id].process_status = "pending"
    /\ \A e \in collection : e.entity_id # id
    /\ \E outcome \in IndexOutcomes, commit_ok \in BOOLEAN :
        LET res == add_screenshot(collection, connected, NewVectorId(id), id,
                                  ProviderEmbedding, screenshots[id].user_id, outcome) IN
        /\ collection' = res.index
        /\ screenshots' = [screenshots EXCEPT ![id] =
                              IF ~res.out.raised /\ commit_ok
                              THEN [@ EXCEPT !.vector_id = Some(res.out.value),
                                             !.process_status = "processed"]
                              ELSE @]
    /\ response' = None
    /\ UNCHANGED <<req, enrichment, env, rest>>

\* DELETE /screenshot/{id} by the owner of a row.
DeleteScreenshot(id) ==
    /\ TablesObserved
    /\ IsLive(screenshots[id])
    /\ \E outcome \in DeleteOutcomes, commit_ok \in BOOLEAN :
        LET res == delete_screenshot_row(screenshots[id], collection, connected,
                                         outcome, commit_ok) IN
        /\ collection' = res.index
        /\ screenshots' = [screenshots EXCEPT ![id] =
                              IF res.deleted THEN DeletedRow ELSE @]
    /\ response' = None
    /\ UNCHANGED <<req, enrichment, env, rest>>

\* The request returns or raises: the caller has the response, the locals
\* are gone.  no_candidates: the vector search of the request returned an
\* empty list; reranker_calls: how often the request called
\* rerank_screenshots.
Respond(out, no_candidates, reranker_calls) ==
    /\ response' = Some([out |-> out, user |-> req.user, limit |-> req.limit,
                         created |-> req.created, no_candidates |-> no_candidates,
                         reranker_calls |-> reranker_calls])
    /\ req' = IdleRequest

\* Lines 38-51: a request arrives and its query is embedded.
StartRequest ==
    /\ req.pc = "idle"
    /\ \E u \in Accounts, limit \in Limits, out \in QueryEmbeddings :
        IF out.raised
        THEN \* HTTPException 500
             /\ response' = Some([out |-> Raised, user |-> u, limit |-> limit,
                                  created |-> 0, no_candidates |-> FALSE,
                                  reranker_calls |-> 0])
             /\ req' = IdleRequest
        ELSE /\ response' = None
             /\ req' = [IdleRequest EXCEPT !.pc = "search", !.user = u, !.limit = limit,
                                           !.query_embedding = Some(out.value)]
    /\ UNCHANGED <<screenshots, collection, enrichment, env, rest>>

\* The vector search of a request that hands an empty result on to the
\* reranker instead of returning.
VectorSearchInvokesReranker ==
    /\ req.pc = "search"
    /\ \E res \in {search_screenshots(ranked, connected, req.query_embedding[1],
                                       <<req.user>>, req.limit * 2, outcome) :
                      ranked \in Perms(collection), outcome \in SearchOutcomes} :
        IF res.raised THEN Respond(Raised, FALSE, 0)
        ELSE /\ req' = [req EXCEPT !.pc = IF res.value = <<>> THEN "rerank"
                                          ELSE "store_query",
                                   !.search_results = res.value,
                                   !.query_embedding = None]
             /\ UNCHANGED response
    /\ UNCHANGED <<screenshots, collection, enrichment, env, rest>>

\* Lines 53-62: step 3 and the return on an empty result.
VectorSearch ==
    /\ req.pc = "search"
    /\ \E res \in {search_screenshots(ranked, connected, req.query_embedding[1],
                                       <<req.user>>, req.limit * 2, outcome) :
                      ranked \in Perms(collection), outcome \in SearchOutcomes} :
        IF res.raised THEN Respond(Raised, FALSE, 0)
        ELSE IF res.value = <<>> THEN Respond(Returned(<<>>), TRUE, 0)
        ELSE /\ req' = [req EXCEPT !.pc = "store_query", !.search_results = res.value,
                                        !.query_embedding = None]
             /\ UNCHANGED response
    /\ UNCHANGED <<screenshots, collection, enrichment, env, rest>>

\* Lines 64-73: step 4, the Query record.
StoreQuery ==
    /\ req.pc = "store_query"
    /\ \E outcome \in {"stored", "commit_failed", "refresh_failed"} :
        CASE outcome = "stored" ->
                /\ req' = [req EXCEPT !.pc = "fetch", !.created = @ + 1]
                /\ UNCHANGED response
          [] outcome = "commit_failed" ->
                Respond(Raised, FALSE, 0)
          [] outcome = "refresh_failed" ->
                /\ response' = Some([out |-> Raised, user |-> req.user,
                                     limit |-> req.limit, created |-> req.created + 1,
                                     no_candidates |-> FALSE,
                                     reranker_calls |-> 0])
                /\ req' = IdleRequest
    /\ UNCHANGED <<screenshots, collection, enrichment, env, rest>>

\* Lines 75-110: steps 5 and 6 and the return on an empty list.  Of a
\* ScreenshotDTO the id and the owner are kept.
FetchScreenshots ==
    /\ req.pc = "fetch"
    /\ \E query_ok \in BOOLEAN :
        IF ~query_ok THEN Respond(Raised, FALSE, 0)
        ELSE LET ids == {req.search_results[i].screenshot_id :
                            i \in 1..Len(req.search_results)}
                 found == {id \in ids \cap ScreenshotIds : IsLive(screenshots[id])}
                 screenshot_map == [id \in found |-> screenshots[id]]
                 InMap(result) == result.screenshot_id \in found
                 kept == SelectSeq(req.search_results, InMap)
                 dtos == [i \in 1..Len(kept) |->
                             [id |-> kept[i].screenshot_id,
                              user_id |-> screenshot_map[kept[i].screenshot_id].user_id]]
             IN
             IF dtos = <<>> THEN Respond(Returned(<<>>), FALSE, 0)
             ELSE /\ req' = [req EXCEPT !.pc = "rerank",
                                        !.screenshot_map = screenshot_map,
                                        !.dtos = dtos]
                  /\ UNCHANGED response
    /\ UNCHANGED <<screenshots, collection, enrichment, env, rest>>

\* Lines 112-141: the reranker and step 8.  RerankingService.initialized and
\* the model's answer are drawn with the call.
RerankAndRespond ==
    /\ req.pc = "rerank"
    /\ \E reranked \in
             {rerank_screenshots(TRUE, req.dtos, req.limit, "content", content).value :
                  content \in RerankContents}
             \cup {rerank_screenshots(initialized, req.dtos, req.limit,
                                      "call_failed", <<>>).value :
                       initialized \in BOOLEAN} :
        LET InMap(pair) == pair.screenshot.id \in DOMAIN req.screenshot_map
            kept == SelectSeq(reranked, InMap)
            results == [i \in 1..Len(kept) |->
                           [screenshot |-> from_db(kept[i].screenshot.id,
                                                   req.screenshot_map[kept[i].screenshot.id]),
                            score |-> kept[i].score]]
        IN Respond(Returned(results), req.search_results = <<>>, 1)
    /\ UNCHANGED <<screenshots, collection, enrichment, env, rest>>

NextSearch ==
    \/ \E id \in ScreenshotIds :
          \/ UploadScreenshot(id)
          \/ IndexScreenshot(id)
          \/ DeleteScreenshot(id)
    \/ StartRequest
    \/ VectorSearch
    \/ StoreQuery
    \/ FetchScreenshots
    \/ RerankAndRespond

SpecSearch == InitSearch /\ [][NextSearch]_vars

----------------------------------------------------------------------------
\* The VectorService as its callers can use it: add_screenshot, add_query,
\* delete_screenshot and search_screenshots on one collection.

InitIndex == InitSearch

\* add_screenshot or add_query for an entity that has no entry yet.
AddEntity(id) ==
    /\ \A e \in collection : e.entity_id # id
    /\ \E u \in Accounts, out \in QueryEmbeddings, outcome \in IndexOutcomes :
        LET res == IF id \in QueryIds
                   THEN add_query(collection, connected, NewVectorId(id), id,
                                  out.value, u, outcome)
                   ELSE add_screenshot(collection, connected, NewVectorId(id), id,
                                       out.value, u, outcome) IN
        /\ collection' = res.index
        /\ response' = None
    /\ UNCHANGED <<screenshots, req, enrichment, env, rest>>

\* delete_screenshot(vector_id)
DeleteVector(id) ==
    /\ \E outcome \in DeleteOutcomes :
        LET res == delete_screenshot(collection, connected, NewVectorId(id), outcome) IN
        /\ collection' = res.index
        /\ response' = None
    /\ UNCHANGED <<screenshots, req, enrichment, env, rest>>

\* search_screenshots(query_embedding, user_ids, limit), once the caller has
\* taken the result of the call before.
SearchVectors ==
    /\ response = None
    /\ \E owners \in OwnerLists, limit \in Limits, q \in QueryEmbeddings,
          ranked \in Perms(collection), outcome \in SearchOutcomes :
        response' = Some([out |-> search_screenshots(ranked, connected, q.value,
                                                     owners, limit, outcome),
                          owners |-> owners, limit |-> limit])
    /\ UNCHANGED <<screenshots, collection, req, enrichment, env, rest>>

NextIndex ==
    \/ \E id \in ScreenshotIds \cup QueryIds :
          \/ AddEntity(id)
          \/ DeleteVector(id)
    \/ SearchVectors

SpecIndex == InitIndex /\ [][NextIndex]_vars

----------------------------------------------------------------------------
\* The enrichment runs together with DELETE /screenshot/{id} on their
\* records.

\* The owner deletes the record of run r (api/screenshots.py, lines 172-197).
DeleteRecord(r) ==
    /\ IsLive(rows[r])
    /\ \E outcome \in DeleteOutcomes, commit_ok \in BOOLEAN :
        LET res == delete_screenshot_row(rows[r], vectors, connected, outcome, commit_ok) IN
        /\ vectors' = res.index
        /\ rows' = [rows EXCEPT ![r] = IF res.deleted THEN DeletedRow ELSE @]
    /\ UNCHANGED <<pc, db, escaped, obj, locals, trace, writes, env, retrieval, rest>>

NextDelete ==
    \E r \in Run :
        \/ CreateRecord(r)
        \/ RunOcr(r)
        \/ FindSources(r)
        \/ Distill(r)
        \/ Embed(r)
        \/ Index(r)
        \/ UpdateRecord(r)
        \/ MarkScreenshotError(r)
        \/ HandleException(r)
        \/ DeleteRecord(r)

SpecDelete == Init /\ [][NextDelete]_vars

----------------------------------------------------------------------------
\* The writers of a Screenshot Record: its enrichment run, and its owner
\* through PUT /screenshot-note/{id} and DELETE /screenshot/{id}.

\* update_screenshot (api/screenshots.py, lines 141-171) by the owner of
\* the record of run r, in a session of its own; once per record.
UpdateScreenshot(r) ==
    /\ IsLive(rows[r])
    /\ user_update[r] = None
    /\ \E update_data \in UpdateData, commit_ok \in BOOLEAN :
        LET c == Commit(rows[r],
                        flush_update(rows[r], rows[r],
                                     edited_screenshot(rows[r], update_data)),
                        commit_ok) IN
        /\ rows' = [rows EXCEPT ![r] = c.row]
        /\ user_update' = [user_update EXCEPT ![r] =
                               IF commit_ok THEN Some(update_data) ELSE @]
    /\ UNCHANGED <<pc, db, escaped, obj, locals, vectors, trace, writes, env,
                   retrieval, reranker, pool, friends>>

NextWriters ==
    \E r \in Run :
        \/ CreateRecord(r)
        \/ RunOcr(r)
        \/ FindSources(r)
        \/ Distill(r)
        \/ Embed(r)
        \/ Index(r)
        \/ UpdateRecord(r)
        \/ MarkScreenshotError(r)
        \/ HandleException(r)
        \/ UpdateScreenshot(r)
        \/ DeleteRecord(r)

SpecWriters == Init /\ [][NextWriters]_vars

----------------------------------------------------------------------------
\* send_friend_request (api/friends.py) called by the accounts, on one
\* friendships table.

InitFriends ==
    /\ EnrichmentIdle
    /\ connected = TRUE
    /\ ocr_initialized = TRUE
    /\ distiller_initialized = TRUE
    /\ tencent_available = TRUE
    /\ RetrievalIdle
    /\ RestIdle

\* No other call of the same process is between its arrival and its
\* response.
ProcessFree(c, p) ==
    \A d \in Calls \ {c} :
        friend_requests[d].process = p => friend_requests[d].pc \in {"none", "done"}

\* Lines 18-42: the call arrives and the addressee is looked up.
LookUpAddressee(c) ==
    /\ friend_requests[c].pc = "none"
    /\ \E p \in Processes, u \in Accounts, addressee \in Addressees, listed \in BOOLEAN :
        /\ ProcessFree(c, p)
        /\ friend_requests' = [friend_requests EXCEPT ![c] =
              [NoCall EXCEPT
                 !.process = p,
                 !.current_user_id = u,
                 !.addressee = IF listed /\ addressee # Some(u) THEN addressee ELSE None,
                 !.pc = IF listed /\ addressee \notin {None, Some(u)}
                        THEN "query" ELSE "done",
                 !.response = IF ~listed THEN 500
                              ELSE IF addressee = None THEN 404
                              ELSE IF addressee = Some(u) THEN 400
                              ELSE 0]]
    /\ UNCHANGED <<friendships, enrichment, env, retrieval, reranker, pool, user_update>>

\* Lines 44-57: the query for an existing friendship.
QueryFriendship(c) ==
    /\ friend_requests[c].pc = "query"
    /\ \E query_ok \in BOOLEAN :
        LET call == friend_requests[c]
            found == existing_friendship(friendships, call.current_user_id,
                                         call.addressee[1])
        IN friend_requests' = [friend_requests EXCEPT ![c] =
              IF ~query_ok THEN [call EXCEPT !.pc = "done", !.response = 500]
              ELSE IF found # {} THEN [call EXCEPT !.pc = "done", !.response = 400]
              ELSE [call EXCEPT !.pc = "insert"]]
    /\ UNCHANGED <<friendships, enrichment, env, retrieval, reranker, pool, user_update>>

\* Lines 59-69: the row is added and committed.
InsertFriendship(c) ==
    /\ friend_requests[c].pc = "insert"
    /\ \E commit_ok \in BOOLEAN :
        LET call == friend_requests[c]
            friendship == [id |-> c, requester_id |-> call.current_user_id,
                           addressee_id |-> call.addressee[1], status |-> "pending"]
            stored == commit_ok /\ unique_friendship(friendships, friendship)
        IN
        /\ friendships' = IF stored THEN friendships \cup {friendship} ELSE friendships
        /\ friend_requests' = [friend_requests EXCEPT ![c] =
              [call EXCEPT !.pc = "done", !.response = IF stored THEN 201 ELSE 500]]
    /\ UNCHANGED <<enrichment, env, retrieval, reranker, pool, user_update>>

NextFriends ==
    \E c \in Calls :
        \/ LookUpAddressee(c)
        \/ QueryFriendship(c)
        \/ InsertFriendship(c)

SpecFriends == InitFriends /\ [][NextFriends]_vars

----------------------------------------------------------------------------
\* RerankingService.rerank_screenshots on its own: one call with a list of
\* candidates and a top_k, answered by the provider in every way.

InitRerank ==
    /\ EnrichmentIdle
    /\ connected = TRUE
    /\ ocr_initialized = TRUE
    /\ distiller_initialized = TRUE
    /\ tencent_available = TRUE
    /\ RetrievalIdle
    /\ rerank_input \in {Some(input) : input \in RerankInputs}
    /\ rerank_output = None
    /\ PoolIdle
    /\ NoUserUpdate
    /\ FriendsIdle

\* The call returns or raises.
Rerank ==
    /\ rerank_output = None
    /\ \E call \in RerankCalls :
          rerank_output' =
              Some([call |-> call,
                    out |-> rerank_screenshots(call.initialized,
                                               rerank_input[1].screenshots,
                                               rerank_input[1].top_k,
                                               call.outcome, call.content)])
    /\ UNCHANGED <<rerank_input, enrichment, env, retrieval, pool, user_update, friends>>

NextRerank == Rerank

SpecRerank == InitRerank /\ [][NextRerank]_vars

----------------------------------------------------------------------------
\* The worker pool of api/screenshots.py: every upload submits one task to
\* the executor, whose threads take the tasks from its queue in order.

InitPool ==
    /\ EnrichmentIdle
    /\ connected = TRUE
    /\ ocr_initialized = TRUE
    /\ distiller_initialized = TRUE
    /\ tencent_available = TRUE
    /\ RetrievalIdle
    /\ RerankerIdle
    /\ PoolIdle
    /\ NoUserUpdate
    /\ FriendsIdle

Running == {t \in Tasks : tasks[t] = "running"}

\* executor.submit(process_screenshot_async, ...) of the next upload.
Submit(t) ==
    /\ tasks[t] = "new"
    /\ \A u \in Tasks : u < t => tasks[u] # "new"
    /\ tasks' = [tasks EXCEPT ![t] = "queued"]
    /\ work_queue' = Append(work_queue, t)
    /\ num_threads' = adjust_thread_count(num_threads, Cardinality(Running))
    /\ running_at_submit' =
          [running_at_submit EXCEPT ![t] =
              IF Cardinality(Running) >= max_workers THEN Running ELSE {}]
    /\ UNCHANGED <<enrichment, env, retrieval, reranker, user_update, friends>>

\* A thread that runs no task takes the first work item of the queue and
\* calls process_screenshot_async.
Start(t) ==
    /\ work_queue # <<>>
    /\ t = Head(work_queue)
    /\ Cardinality(Running) < num_threads
    /\ work_queue' = Tail(work_queue)
    /\ tasks' = [tasks EXCEPT ![t] = "running"]
    /\ UNCHANGED <<num_threads, running_at_submit, enrichment, env, retrieval, reranker, user_update, friends>>

\* process_screenshot_async returns (lines 62-97); its thread is idle again.
Complete(t) ==
    /\ tasks[t] = "running"
    /\ tasks' = [tasks EXCEPT ![t] = "finished"]
    /\ UNCHANGED <<work_queue, num_threads, running_at_submit,
                   enrichment, env, retrieval, reranker, user_update, friends>>

NextPool ==
    \E t \in Tasks :
        \/ Submit(t)
        \/ Start(t)
        \/ Complete(t)

SpecPool == InitPool /\ [][NextPool]_vars

\* The threads of the executor are scheduled and every call of
\* process_screenshot_async returns.
SpecPoolLive ==
    /\ SpecPool
    /\ \A t \in Tasks : WF_vars(Start(t)) /\ WF_vars(Complete(t))

----------------------------------------------------------------------------
\* Properties

Created(r) == rows[r].process_status # "absent"

Status(r) == rows[r].process_status

\* title, description, narrative and quick link
ContentNull(row) ==
    /\ row.ai_title = None
    /\ row.ai_description = None
    /\ row.markdown_content = None
    /\ row.quick_link = None

ContentPresent(row) ==
    /\ row.ai_title # None
    /\ row.ai_description # None
    /\ row.markdown_content # None
    /\ row.quick_link # None

\* every field the pipeline derives
DerivedAbsent(row) ==
    /\ ContentNull(row)
    /\ row.ai_tags = None
    /\ row.vector_id = None

DerivedPresent(row) ==
    /\ ContentPresent(row)
    /\ row.ai_tags # None
    /\ row.vector_id # None

Entry(stage, result) == [stage |-> stage, result |-> result]

Has(r, stage, result) == \E i \in 1..Len(trace[r]) : trace[r][i] = Entry(stage, result)

IsStage(e) == e.stage # "error_write"

\* the stage invocations of a run, without the error-status writes
StageTrace(r) == SelectSeq(trace[r], IsStage)

AllStagesReturned(r) ==
    /\ Len(StageTrace(r)) = Len(StageOrder)
    /\ \A i \in 1..Len(StageOrder) : StageTrace(r)[i] = Entry(StageOrder[i], "returned")

\* C1: a persisted status of processed comes with title, description,
\* narrative and quick link all non-null, and a persisted status of error
\* comes with all four null.
C1_StatusAndContent ==
    \A r \in Run :
        /\ Status(r) = "processed" => ContentPresent(rows[r])
        /\ Status(r) = "error" => ContentNull(rows[r])

\* A processed record whose extraction was the extractor's error response,
\* so that its description is the default of _prepare_metadata.
C1_Witness ==
    \E r \in Run :
        /\ pc[r] = "done"
        /\ Status(r) = "processed"
        /\ rows[r].ai_description = Some("")

\* C2: a run that created its record and has ended left the record
\* processed or error, whatever the stages and the storage layer did.
C2_EndsProcessedOrError ==
    \A r \in Run :
        (pc[r] = "done" /\ Created(r)) => Status(r) \in {"processed", "error"}

\* C3: the persisted status of an existing record changes only from pending
\* to processed or from pending to error.
C3_StatusOnlyForward ==
    [][\A r \in Run :
          (Created(r) /\ rows'[r].process_status # rows[r].process_status)
              => /\ rows[r].process_status = "pending"
                 /\ rows'[r].process_status \in {"processed", "error"}]_vars

\* A record that has made its one transition.
C3_Witness ==
    \E r \in Run : pc[r] = "done" /\ Status(r) = "processed" /\ writes[r] = 1

\* C4: when all six stages of a run returned, the row was changed by exactly
\* one commit, it is processed and carries every derived field; a row is
\* processed only after a terminal write that returned, and until the
\* terminal write or an error write is attempted no commit has changed it.
C4_SingleTerminalWrite ==
    \A r \in Run :
        /\ AllStagesReturned(r)
              => /\ pc[r] = "done"
                 /\ writes[r] = 1
                 /\ Status(r) = "processed"
                 /\ DerivedPresent(rows[r])
        /\ Status(r) = "processed"
              => /\ Has(r, "terminal_write", "returned")
                 /\ writes[r] = 1
        /\ writes[r] <= 1
        /\ (~Has(r, "terminal_write", "returned") /\ ~Has(r, "error_write", "returned"))
              => writes[r] = 0

\* A run that went through all six stages with the index connected.
C4_Witness ==
    \E r \in Run :
        /\ AllStagesReturned(r)
        /\ rows[r].vector_id = Some(NewVectorId(r))
        /\ rows[r].quick_link = Some([type |-> "direct", content |-> "why rust"])

C6_HardFailureNotHandedOn ==
    \A r \in Run : ocr_result[r] # Some(ocr_error_response)

\* C7: a run that has ended after its indexing raised or its terminal write
\* failed left the record error, with every derived field absent.
C7_IndexOrWriteFailureEndsError ==
    \A r \in Run :
        (pc[r] = "done" /\ (Has(r, "indexing", "raised") \/ Has(r, "terminal_write", "raised")))
            => /\ Status(r) = "error"
               /\ DerivedAbsent(rows[r])

\* C8: the stages a run has invoked are a prefix of the fixed order, each
\* once, and every stage but the last invoked one has returned.
C8_StageOrder ==
    \A r \in Run :
        LET st == StageTrace(r) IN
        /\ Len(st) <= Len(StageOrder)
        /\ \A i \in 1..Len(st) :
              /\ st[i].stage = StageOrder[i]
              /\ i < Len(st) => st[i].result = "returned"

\* A run that stopped at a raising stage in the middle of the order.
C8_Witness ==
    \E r \in Run :
        /\ pc[r] = "done"
        /\ Len(StageTrace(r)) = 5
        /\ StageTrace(r)[5] = Entry("indexing", "raised")

\* C9: between the creation of its record and its terminal step a run does
\* not write to the record: the row is pending, without derived fields and
\* unchanged by any commit.
C9_NoWriteBeforeTerminalStep ==
    \A r \in Run :
        pc[r] \in {"ocr", "resolve", "distill", "embed", "index", "update", "mark_error", "handler"}
            => /\ Created(r) => Status(r) = "pending"
               /\ DerivedAbsent(rows[r])
               /\ writes[r] = 0

\* A run about to make its terminal write, its vector already in the index.
C9_Witness ==
    \E r \in Run :
        /\ pc[r] = "update"
        /\ \E e \in vectors : e.entity_id = r
        /\ Status(r) = "pending"

\* C10: the Source Resolver stage never raises past its own boundary.
C10_ResolverNeverRaises ==
    \A r \in Run : ~Has(r, "resolution", "raised")

\* C11: the Canonical Distiller never raises: uninitialized, or with a failed
\* provider call, or without a parsed result, extract_structured_data returns
\* exactly the fallback (title "Processing Error", quick link of kind search
\* string); the run that holds the fallback goes on to embedding and
\* indexing, and it ends processed with the fallback's title and quick link
\* unless indexing or the terminal write fails.
C11_DistillerFallback ==
    /\ \A o \in DistillOutcomes :
          extract_structured_data(FALSE, o) = Returned(distill_error_response)
    /\ \A o \in {"call_failed", "no_parsed"} :
          extract_structured_data(TRUE, o) = Returned(distill_error_response)
    /\ distill_error_response.title = "Processing Error"
    /\ distill_error_response.quick_link.type = "search_str"
    /\ \A r \in Run :
          /\ ~Has(r, "distillation", "raised")
          /\ (~distiller_initialized /\ Has(r, "distillation", "returned") /\ pc[r] # "done")
                => structured_data[r] = Some(distill_error_response)
          /\ structured_data[r] = Some(distill_error_response)
                => /\ pc[r] \in {"embed", "index", "update", "handler"}
                   /\ pc[r] = "handler"
                         => (Has(r, "indexing", "raised") \/ Has(r, "terminal_write", "raised"))
          /\ (Has(r, "distillation", "returned") /\ pc[r] = "done"
                /\ ~Has(r, "indexing", "raised") /\ ~Has(r, "terminal_write", "raised"))
                => /\ Status(r) = "processed"
                   /\ Has(r, "embedding", "returned")
                   /\ Has(r, "indexing", "returned")
                   /\ ~distiller_initialized
                         => /\ rows[r].ai_title = Some("Processing Error")
                            /\ rows[r].quick_link = Some(distill_error_response.quick_link)

\* A run whose Distiller was not initialized and that ended processed.
C11_Witness ==
    \E r \in Run :
        /\ ~distiller_initialized
        /\ pc[r] = "done"
        /\ Status(r) = "processed"
        /\ rows[r].ai_title = Some("Processing Error")
        /\ rows[r].quick_link = Some([type |-> "search_str", content |-> "screenshot content"])

\* C12: generate_embedding never raises: for a text that is empty or only
\* whitespace, and for every failure of the provider, it returns the all-zero
\* vector whose length is the configured dimension (evaluated on every text
\* and provider outcome whenever a run is about to embed); the embedding
\* step of a run never raises, so the run goes on to indexing.
C12_EmbeddingNeverRaises ==
    /\ (\E r \in Run : pc[r] = "embed") =>
          \A t \in Texts, o \in EmbeddingOutcomes :
              LET out == generate_embedding(t, o) IN
              /\ ~out.raised
              /\ out.value.dim = OPENAI_EMBEDDING_DIM
              /\ (\A i \in 1..Len(t) : IsSpace(t[i]))
                    => out.value = Zeros(OPENAI_EMBEDDING_DIM)
              /\ o # "ok" => out.value = Zeros(OPENAI_EMBEDDING_DIM)
    /\ \A r \in Run :
          /\ ~Has(r, "embedding", "raised")
          /\ Has(r, "distillation", "returned") /\ pc[r] = "done"
                => \E res \in {"returned", "raised"} : Has(r, "indexing", res)
          /\ embedding[r] # None
                => /\ pc[r] \in {"index", "update", "handler"}
                   /\ embedding[r][1].dim = OPENAI_EMBEDDING_DIM

\* A run whose embedding call failed: the zero vector is in the index and
\* the record is processed.
C12_Witness ==
    \E r \in Run :
        /\ pc[r] = "done"
        /\ Status(r) = "processed"
        /\ \E e \in vectors : e.entity_id = r /\ e.embedding = Zeros(OPENAI_EMBEDDING_DIM)

\* C13: with the Vector Index unreachable at construction, add returns
\* "not-stored" and stores nothing, search returns the empty list, delete
\* does nothing, and none of them raises; a run whose stages all return then
\* ends processed with the vector reference "not-stored", and a search or
\* a delete after the runs returns the empty list or does nothing.
C13_DisconnectedIndex ==
    ~connected =>
        /\ vectors = {}
        /\ \A r \in Run, o \in IndexOutcomes, u \in Users :
              pc[r] = "index" =>
                  add_screenshot(vectors, connected, NewVectorId(r), r, ZeroVector, u, o)
                      = [index |-> vectors, out |-> Returned(NotStored)]
        /\ (\A r \in Run : pc[r] = "done") =>
              /\ \A owners \in OwnerLists, limit \in Limits, o \in SearchOutcomes,
                    q \in {ZeroVector, ProviderEmbedding}, ranked \in Perms(vectors) :
                    search_screenshots(ranked, connected, q, owners, limit, o) = Returned(<<>>)
              /\ \A r \in Run, o \in DeleteOutcomes :
                    /\ delete_screenshot(vectors, connected, NewVectorId(r), o)
                           = [index |-> vectors, out |-> Returned(None)]
                    /\ delete_screenshot(vectors, connected, NotStored, o)
                           = [index |-> vectors, out |-> Returned(None)]
        /\ \A r \in Run :
              /\ ~Has(r, "indexing", "raised")
              /\ vector_id[r] \in {None, Some(NotStored)}
              /\ Has(r, "indexing", "returned") /\ pc[r] # "done"
                    => vector_id[r] = Some(NotStored)
              /\ AllStagesReturned(r)
                    => /\ Status(r) = "processed"
                       /\ rows[r].vector_id = Some(NotStored)

\* A run that ended processed while the index was unreachable.
C13_Witness ==
    \E r \in Run :
        /\ ~connected
        /\ pc[r] = "done"
        /\ Status(r) = "processed"
        /\ rows[r].vector_id = Some(NotStored)
        /\ vectors = {}

\* C14: every hit search_screenshots returns is an entry of entity type
\* screenshot whose owner is in the requested owner list.
C14_SearchFiltersTypeAndOwner ==
    response # None =>
        LET r == response[1]
            hits == r.out.value IN
        /\ ~r.out.raised
        /\ \A i \in 1..Len(hits) :
              /\ \E j \in 1..Len(r.owners) : hits[i].user_id = r.owners[j]
              /\ hits[i].screenshot_id \in ScreenshotIds
              /\ \E e \in collection :
                    /\ e.entity_id = hits[i].screenshot_id
                    /\ e.user_id = hits[i].user_id
                    /\ e.entity_type = "screenshot"

\* A search for one owner that returns a hit while the collection holds a
\* query entry of that owner and a screenshot entry of another owner.
C14_Witness ==
    /\ response # None
    /\ response[1].owners = <<"alice">>
    /\ Len(response[1].out.value) = 1
    /\ \E e \in collection : e.entity_type = "query" /\ e.user_id = "alice"
    /\ \E e \in collection : e.entity_type = "screenshot" /\ e.user_id = "bob"

\* C15: with the index connected, once every run has ended, each processed
\* record has exactly one entry of type screenshot in the index and the id
\* of that entry is the record's vector reference; a record that ended in
\* error has no entry.
C15_EntryIffProcessed ==
    (connected /\ \A r \in Run : pc[r] = "done") =>
        \A r \in Run :
            LET entries == {e \in vectors : e.entity_id = r /\ e.entity_type = "screenshot"} IN
            /\ Status(r) = "processed"
                  => /\ Cardinality(entries) = 1
                     /\ \A e \in entries : rows[r].vector_id = Some(e.id)
            /\ Status(r) = "error" => entries = {}

\* C16: once the deletion of a record has completed and the enrichment run
\* for the record has ended, the index holds no entry with the record's id,
\* whatever the interleaving and the outcome of the index delete call.
C16_NoEntryAfterDeletion ==
    \A r \in Run :
        (rows[r] = DeletedRow /\ pc[r] = "done")
            => \A e \in vectors : e.entity_id # r

\* The results of the last response, when the request returned.
Results == IF response = None \/ response[1].out.raised THEN <<>> ELSE response[1].out.value

\* C17: every result a retrieval request returns is a Screenshot Record
\* owned by the requesting user, whatever the index and the table hold.
C17_ResultsOwnedByRequester ==
    \A i \in 1..Len(Results) :
        LET s == Results[i].screenshot IN
        /\ s.user_id = response[1].user
        /\ s.id \in ScreenshotIds
        /\ IsLive(screenshots[s.id])
        /\ screenshots[s.id].user_id = response[1].user

\* A request of alice that returned a result while the index holds an entry
\* for a live record of bob.
C17_Witness ==
    /\ Len(Results) >= 1
    /\ response[1].user = "alice"
    /\ \E e \in collection :
          /\ e.user_id = "bob"
          /\ IsLive(screenshots[e.entity_id])

\* C18: a retrieval request never raises to its caller: whatever fails, it
\* returns a list.
C18_RequestNeverRaises ==
    response # None => ~response[1].out.raised

\* C19: every finished retrieval request has created exactly one Query
\* Record, whether it returned results, an empty list, or failed.
C19_OneQueryRecordPerRequest ==
    response # None => response[1].created = 1

\* C20: the list a retrieval request with limit L returns has at most L
\* elements, whatever the vector search and the reranker did.
C20_AtMostLimitResults ==
    response # None => Len(Results) <= response[1].limit

\* A request with limit 1 that returned one result while two live records
\* of the requester are in the index.
C20_Witness ==
    /\ response # None
    /\ response[1].limit = 1
    /\ Len(Results) = 1
    /\ Cardinality({e \in collection : /\ e.user_id = response[1].user
                                      /\ e.entity_type = "screenshot"
                                      /\ IsLive(screenshots[e.entity_id])}) >= 2

\* C21: a retrieval request whose vector search returned no candidates
\* returns the empty list without having called the reranker, and the
\* reranker step is only ever reached with candidates.
C21_EmptySearchSkipsReranker ==
    /\ req.pc = "rerank" => req.search_results # <<>>
    /\ (response # None /\ response[1].no_candidates) =>
          /\ response[1].out = Returned(<<>>)
          /\ response[1].reranker_calls = 0

\* A request of bob found no candidate in a connected index that holds an
\* entry of alice, and returned the empty list.
C21_Witness ==
    /\ response # None
    /\ response[1].no_candidates
    /\ response[1].user = "bob"
    /\ response[1].out = Returned(<<>>)
    /\ connected
    /\ \E e \in collection : e.user_id = "alice"

\* The call examined, once it has ended: the list and top_k it was given,
\* the provider's answer, and the list it returned.
RerankEnded == rerank_output # None
Given == rerank_input[1].screenshots
TopK == rerank_input[1].top_k
Call == rerank_output[1].call
Reranked == IF rerank_output[1].out.raised THEN <<>> ELSE rerank_output[1].out.value

\* The rankings the call used, and whether the answer was parsed and used.
UsedRankings == Take(parse_rankings(Call.content), TopK)
NamedIndices == {UsedRankings[i].idx : i \in 1..Len(UsedRankings)}
AnswerUsed ==
    /\ Call.initialized
    /\ Call.outcome = "content"
    /\ Call.content # <<>>
    /\ \A i \in 1..Len(UsedRankings) : UsedRankings[i].idx >= -Len(Given)

\* The candidates the used rankings do not name, in the original order.
IsOmitted(candidate) == (candidate - 1) \notin NamedIndices
Omitted == SelectSeq(Given, IsOmitted)

\* C22: whatever the provider answers, a call of rerank_screenshots with at
\* least top_k candidates does not raise and returns exactly top_k results;
\* behind the results taken from the answer come the candidates the answer
\* omitted, in their original order and with the score 0.5.
C22_ExactlyTopKBackfilled ==
    RerankEnded =>
        /\ ~rerank_output[1].out.raised
        /\ Len(Given) >= TopK =>
              /\ Len(Reranked) = TopK
              /\ AnswerUsed =>
                    LET taken == Cardinality({i \in 1..Len(UsedRankings) :
                                                 UsedRankings[i].idx < Len(Given)})
                        fill == SubSeq(Reranked, taken + 1, Len(Reranked))
                        expected == Take(Omitted, TopK - taken)
                    IN fill = [i \in 1..Len(expected) |->
                                  [screenshot |-> expected[i], score |-> 5]]

\* Of three candidates the answer ranks only the first; with top_k = 2 the
\* call returns that one and then the second candidate with score 0.5.
C22_Witness ==
    /\ RerankEnded
    /\ Given = <<1, 2, 3>>
    /\ TopK = 2
    /\ Call.content = <<[parses |-> TRUE, idx |-> 0, score |-> 9]>>
    /\ Reranked = <<[screenshot |-> 1, score |-> 9], [screenshot |-> 2, score |-> 5]>>

\* C23: the list a call of rerank_screenshots returns is a reordering of
\* its candidates: every element is one of the candidates and no candidate
\* is returned twice.
C23_ResultIsReordering ==
    RerankEnded =>
        /\ \A i \in 1..Len(Reranked) :
              \E j \in 1..Len(Given) : Reranked[i].screenshot = Given[j]
        /\ \A i, j \in 1..Len(Reranked) :
              Reranked[i].screenshot = Reranked[j].screenshot => i = j

\* C24: every score in the list a call of rerank_screenshots returns lies
\* between 0 and 1 (scores are in tenths).
C24_ScoresInUnitInterval ==
    RerankEnded =>
        \A i \in 1..Len(Reranked) : Reranked[i].score >= 0 /\ Reranked[i].score <= 10

\* The call fell back: the service is uninitialized, the provider call
\* failed, the answer is empty, or no line of the answer parses.
FellBack ==
    \/ ~Call.initialized
    \/ Call.outcome = "call_failed"
    \/ Call.content = <<>>
    \/ parse_rankings(Call.content) = <<>>

\* C25: when the reranker is uninitialized, its provider call fails, the
\* answer is empty or no ranking parses, the call returns the first top_k
\* candidates in their original order, all with one and the same score
\* (1.0, or 0.5 when the answer had content that did not parse).
C25_FallbackOriginalOrder ==
    (RerankEnded /\ FellBack) =>
        /\ ~rerank_output[1].out.raised
        /\ Len(Reranked) = Len(Take(Given, TopK))
        /\ \A i \in 1..Len(Reranked) : Reranked[i].screenshot = Given[i]
        /\ \A i, j \in 1..Len(Reranked) : Reranked[i].score = Reranked[j].score
        /\ \A i \in 1..Len(Reranked) :
              Reranked[i].score =
                  IF Call.initialized /\ Call.outcome = "content" /\ Call.content # <<>>
                  THEN 5 ELSE 10

\* An answer of two lines that do not parse, for three candidates and
\* top_k = 2: the first two candidates come back with score 0.5.
C25_Witness ==
    /\ RerankEnded
    /\ Given = <<1, 2, 3>>
    /\ TopK = 2
    /\ Call.initialized
    /\ Len(Call.content) = 2
    /\ parse_rankings(Call.content) = <<>>
    /\ Reranked = <<[screenshot |-> 1, score |-> 5], [screenshot |-> 2, score |-> 5]>>

\* C28: the list a call of rerank_screenshots returns is in non-increasing
\* order of score, the appended candidates included.
C28_SortedByScore ==
    RerankEnded =>
        \A i, j \in 1..Len(Reranked) : i < j => Reranked[i].score >= Reranked[j].score

C29_NoExceptionEscapes ==
    \A r \in Run :
        /\ ~escaped[r]
        /\ pc[r] = "done" => db[r] # "open"

\* C27: no write to a Screenshot Record is lost to another writer: what the
\* owner's committed update set (note, tags) is still in the record when
\* its enrichment run has made its terminal write, as long as the record
\* exists.
C27_NoLostWrite ==
    \A r \in Run :
        (IsLive(rows[r]) /\ user_update[r] # None) =>
            LET update_data == user_update[r][1] IN
            /\ update_data.user_note # None => rows[r].user_note = update_data.user_note
            /\ update_data.ai_tags # None =>
                  rows[r].ai_tags = Some(json_dumps(update_data.ai_tags[1]))

\* C30: between any two users the friendships table holds at most one row,
\* counting both directions, whatever calls of send_friend_request have
\* run and however they interleaved.
C30_OneFriendshipPerPair ==
    \A a, b \in Accounts :
        Cardinality({f \in friendships :
                        \/ f.requester_id = a /\ f.addressee_id = b
                        \/ f.requester_id = b /\ f.addressee_id = a}) <= 1

====
